---- MODULE Spec2Model ----
(***************************************************************************)
(* The publish task of pulp_python (pulp_python/app/tasks/publish.py):     *)
(* publish() looks a repository version up, opens a temporary directory    *)
(* and a publication, and write_simple_api() writes the PyPI "simple"      *)
(* index: simple/index.html and one simple/<canonical_name>/index.html     *)
(* per project, each registered with the publication.                      *)
(*                                                                         *)
(* Strings that the code builds or transforms (project names, paths) are   *)
(* sequences of character codes; a path is the sequence of its segments.   *)
(***************************************************************************)
EXTENDS Integers, Sequences, FiniteSets, TLC

VARIABLES
    content,            \* PythonPackageContent rows of the repository version
    remote_artifacts,   \* RemoteArtifact rows: <<content_artifact, sha256>>
    cwd_files,          \* the working directory of the process: path -> node
    tmpdir,             \* whether the run's TemporaryDirectory exists
    publications,       \* the Publication table, with each one's metadata
    pc,                 \* position of the publish task
    exc,                \* the exception in flight ("None" when none)
    index_names,        \* write_simple_api: [(name, canonical_name)]
    checksums,          \* write_simple_api: content_artifact -> sha256
    ind,                \* write_simple_api: cursor into index_names
    current_name,       \* write_simple_api: name at the cursor
    package_releases,   \* write_simple_api: accumulator of triples
    pos,                \* rows of releases.iterator() consumed so far
    run,                \* the run in progress: its argument, and how it began
    tasks,              \* publish tasks the host has still to dispatch
    history             \* one record per finished run of publish()

vars == <<content, remote_artifacts, cwd_files, tmpdir, publications, pc, exc,
          index_names, checksums, ind, current_name, package_releases, pos,
          run, tasks, history>>

locals == <<index_names, checksums, ind, current_name, package_releases, pos>>

database == <<content, remote_artifacts>>

----------------------------------------------------------------------------
(* Bounds of the model. *)

\* Most package files in the repository version, when one publish task runs.
MaxPkgs == 3

\* Most package files in the repository version, and most publish tasks, when
\* several tasks run one after the other.
MaxRepeatPkgs == 2

MaxRuns == 2

----------------------------------------------------------------------------
(* Inputs. *)

\* Project display names: "A_.b", "D", "a-b", "c".  The first and the third
\* differ, and canonicalize to the same name.
NameUniverse ==
    { <<65, 95, 46, 98>>, <<68>>, <<97, 45, 98>>, <<99>> }

\* A sha256 that is None: the column of a row with no artifact of its own.
NoSha == <<>>

\* The sha256 of an artifact ("aa") and that of a remote artifact ("bb").
ArtifactSha == <<97, 97>>

RemoteSha == <<98, 98>>

\* Primary keys of the repository versions in the database, and the keys a
\* caller may pass to publish().
RepositoryVersions == {"rv1"}

RequestedPks == {"rv1", "rv2"}

----------------------------------------------------------------------------
(* Strings. *)

\* 'simple', the directory of simple_dir = 'simple/'
SimpleSeg == <<115, 105, 109, 112, 108, 101>>

\* 'index.html'
IndexHtmlSeg == <<105, 110, 100, 101, 120, 46, 104, 116, 109, 108>>

\* str.lower() on one character (ASCII)
Lower(c) == IF c >= 65 /\ c <= 90 THEN c + 32 ELSE c

\* the characters of the class [-_.]
IsSeparator(c) == c \in {45, 95, 46}

\* re.sub(r"[-_.]+", "-", s): every maximal run of separators becomes one "-"
RECURSIVE SubRuns(_)
SubRuns(s) ==
    IF s = <<>> THEN <<>>
    ELSE IF IsSeparator(Head(s))
         THEN IF Len(s) > 1 /\ IsSeparator(s[2])
              THEN SubRuns(Tail(s))
              ELSE <<45>> \o SubRuns(Tail(s))
         ELSE <<Head(s)>> \o SubRuns(Tail(s))

\* a canonicalize_name that lowercases and leaves the separators alone
LowerOnly(name) == [i \in 1..Len(name) |-> Lower(name[i])]

\* packaging.utils.canonicalize_name
canonicalize_name(name) ==
    LET subbed == SubRuns(name)
    IN  [i \in 1..Len(subbed) |-> Lower(subbed[i])]

\* s < t, comparing strings character by character
RECURSIVE StrLess(_, _)
StrLess(s, t) ==
    IF t = <<>> THEN FALSE
    ELSE IF s = <<>> THEN TRUE
    ELSE IF Head(s) # Head(t) THEN Head(s) < Head(t)
    ELSE StrLess(Tail(s), Tail(t))

----------------------------------------------------------------------------
(* Queries. *)

\* the row of a set of rows that ORDER BY name returns first (rows of one
\* name come back in primary-key order)
FirstByName(rows) ==
    CHOOSE r \in rows :
        \A q \in rows \ {r} :
            \/ StrLess(r.name, q.name)
            \/ r.name = q.name /\ r.pk < q.pk

RECURSIVE OrderByName(_)
OrderByName(rows) ==
    IF rows = {} THEN <<>>
    ELSE LET r == FirstByName(rows)
         IN  <<r>> \o OrderByName(rows \ {r})

\* a sequence without the elements that repeat the one before them
RECURSIVE Distinct(_)
Distinct(s) ==
    IF Len(s) <= 1 THEN s
    ELSE IF s[1] = s[2] THEN Distinct(Tail(s))
    ELSE <<s[1]>> \o Distinct(Tail(s))

\* .order_by('name').values_list('name', flat=True).distinct()
project_names ==
    LET rows == OrderByName(content)
    IN  Distinct([i \in 1..Len(rows) |-> rows[i].name])

\* .values("name", "filename", "contentartifact", "_artifacts__sha256")
\* .order_by("name")
releases == OrderByName(content)

\* .values_list("contentartifact", flat=True)
release_content_artifacts == {r.contentartifact : r \in content}

\* {ca: sha for ca, sha in remote_artifacts} over the RemoteArtifact rows
\* whose content artifact is one of release_content_artifacts
Checksums ==
    LET rows == {ra \in remote_artifacts : ra[1] \in release_content_artifacts}
    IN  [ca \in {ra[1] : ra \in rows} |->
            (CHOOSE ra \in rows : ra[1] = ca)[2]]

----------------------------------------------------------------------------
(* Templates.  A rendered page is the values its template is filled with,   *)
(* in order; the text around them is the same in every page of a template. *)

\* Template(simple_index_template).render({'projects': projects})
RenderIndex(projects) ==
    [template |-> "simple_index_template",
     project_name |-> <<>>,
     anchors |-> [i \in 1..Len(projects) |->
                    [href |-> projects[i][2] \o <<47>>,
                     text |-> projects[i][1]]]]

\* Template(simple_detail_template).render({'project_name': name,
\*                                          'project_packages': packages})
RenderDetail(name, packages) ==
    [template |-> "simple_detail_template",
     project_name |-> name,
     anchors |-> [i \in 1..Len(packages) |->
                    [href |-> packages[i][2] \o <<35, 115, 104, 97, 50, 53, 54, 61>>
                                \o packages[i][3],
                     text |-> packages[i][1]]]]

----------------------------------------------------------------------------
(* Files. *)

Dir == [kind |-> "dir", data |-> <<>>]

File(data) == [kind |-> "file", data |-> data]

NoFiles == [p \in {} |-> Dir]

\* simple_dir, and index_path = '{simple_dir}index.html'
simple_dir == <<SimpleSeg>>

index_path == simple_dir \o <<IndexHtmlSeg>>

\* project_dir = f'{simple_dir}{name}/'
ProjectDir(name) == simple_dir \o <<name>>

\* metadata_relative_path = f'{project_dir}index.html'
MetadataRelativePath(name) == ProjectDir(name) \o <<IndexHtmlSeg>>

\* the publication being built: the row Publication.create() added last
publication == Len(publications)

\* PublishedMetadata.create_from_file(relative_path, publication, file).save()
CreateFromFile(pubs, relative_path, data) ==
    [pubs EXCEPT ![Len(pubs)].published_metadata = @ @@ (relative_path :> data)]

----------------------------------------------------------------------------
(* write_simple_api's steps, as values. *)

\* index_names = [(name, canonicalize_name(name)) for name in project_names]
IndexNames ==
    [i \in 1..Len(project_names) |->
        <<project_names[i], canonicalize_name(project_names[i])>>]

\* a resolution that looks the remote checksum up first
ResolveChecksumRemoteFirst(release) ==
    IF release.contentartifact \in DOMAIN checksums
    THEN [raised |-> FALSE, checksum |-> checksums[release.contentartifact]]
    ELSE IF release.artifacts__sha256 # NoSha
         THEN [raised |-> FALSE, checksum |-> release.artifacts__sha256]
         ELSE [raised |-> TRUE, checksum |-> NoSha]

\* a resolution with checksums.get(content_artifact): None when missing
ResolveChecksumNoRaise(release) ==
    IF release.artifacts__sha256 # NoSha
    THEN [raised |-> FALSE, checksum |-> release.artifacts__sha256]
    ELSE IF release.contentartifact \in DOMAIN checksums
         THEN [raised |-> FALSE, checksum |-> checksums[release.contentartifact]]
         ELSE [raised |-> FALSE, checksum |-> NoSha]

\* checksum = release['_artifacts__sha256'] or checksums[content_artifact]
\* raised: the lookup in checksums raises KeyError
ResolveChecksum(release) ==
    IF release.artifacts__sha256 # NoSha
    THEN [raised |-> FALSE, checksum |-> release.artifacts__sha256]
    ELSE IF release.contentartifact \in DOMAIN checksums
         THEN [raised |-> FALSE, checksum |-> checksums[release.contentartifact]]
         ELSE [raised |-> TRUE, checksum |-> NoSha]

\* (relative_path, path, checksum), with path = f"../../{release['filename']}"
Triple(release, checksum) ==
    <<release.filename, <<46, 46, 47, 46, 46, 47>> \o release.filename, checksum>>

\* write_project_page(), on the files and the publications it is given.
\* io_error: the open() or write() of the page raises OSError.
WriteProjectPage(files, pubs, io_error) ==
    IF ind + 1 > Len(index_names)
    THEN [exc |-> "IndexError", files |-> files, pubs |-> pubs]
    ELSE
    LET name == index_names[ind + 1][2]
        project_dir == ProjectDir(name)
        metadata_relative_path == MetadataRelativePath(name)
        page == RenderDetail(name, package_releases)
    IN  IF project_dir \in DOMAIN files
        THEN [exc |-> "FileExistsError", files |-> files, pubs |-> pubs]
        ELSE IF io_error
        THEN [exc |-> "OSError",
              files |-> files @@ (project_dir :> Dir),
              pubs |-> pubs]
        ELSE [exc |-> "None",
              files |-> (metadata_relative_path :> File(page))
                            @@ files @@ (project_dir :> Dir),
              pubs |-> CreateFromFile(pubs, metadata_relative_path, page)]

\* a flush that keeps the accumulator
AccumulatorKept == package_releases

\* package_releases = [] after a flush
AccumulatorAfterFlush == <<>>

\* a flush that leaves the cursor where it is
CursorStuck == ind

\* ind += 1 after a flush
CursorAfterFlush == ind + 1

\* a with body that catches what write_simple_api() raises
SwallowedException == "None"

\* the exception that leaves the body of the with statements of publish()
PropagatedException == exc

----------------------------------------------------------------------------
(* The state after construction: a database, an empty working directory,   *)
(* no publication, no task running.                                        *)

NoRun == [pk |-> "", simple_existed |-> FALSE]

\* filename of the package file with primary key k: "f1", "f2", ...
Filename(k) == <<102, 48 + k>>

\* Rows are numbered against the order of their names, so that ORDER BY is
\* what sorts them.
InitWith(max_pkgs, n_tasks) ==
    /\ \E n \in 0..max_pkgs :
        \E names \in [1..n -> NameUniverse] :
        \E shas \in [1..n -> {NoSha, ArtifactSha}] :
        \E remote \in SUBSET (1..n) :
            /\ \A k \in 1..n : k < n => ~StrLess(names[k], names[k + 1])
            /\ content = {[pk |-> k,
                           name |-> names[k],
                           filename |-> Filename(k),
                           contentartifact |-> k,
                           artifacts__sha256 |-> shas[k]] : k \in 1..n}
            /\ remote_artifacts = {<<k, RemoteSha>> : k \in remote}
    /\ cwd_files = NoFiles
    /\ tmpdir = FALSE
    /\ publications = <<>>
    /\ pc = "idle"
    /\ exc = "None"
    /\ index_names = <<>>
    /\ checksums = <<>>
    /\ ind = 0
    /\ current_name = <<>>
    /\ package_releases = <<>>
    /\ pos = 0
    /\ run = NoRun
    /\ tasks = n_tasks
    /\ history = <<>>

\* one publish task
Init == InitWith(MaxPkgs, 1)

\* several publish tasks, one after the other
InitRepeat == InitWith(MaxRepeatPkgs, MaxRuns)

----------------------------------------------------------------------------
(* publish() *)

\* publish(repository_version_pk), to the call of write_simple_api():
\* RepositoryVersion.objects.get() raises DoesNotExist for an unknown key;
\* otherwise the temporary directory and the publication are created.
\* TemporaryDirectory(".") takes "." as the suffix of the directory's name:
\* the directory is made under the system's temporary directory, and the
\* process stays in its working directory, where the relative paths of
\* write_simple_api() resolve.
Publish(repository_version_pk) ==
    /\ pc = "idle"
    /\ tasks > 0
    /\ tasks' = tasks - 1
    /\ IF repository_version_pk \notin RepositoryVersions
       THEN /\ history' = Append(history,
                    [pk |-> repository_version_pk,
                     simple_existed |-> simple_dir \in DOMAIN cwd_files,
                     exc |-> "DoesNotExist",
                     publication |-> 0])
            /\ UNCHANGED <<tmpdir, publications, pc, run>>
       ELSE /\ tmpdir' = TRUE
            /\ publications' = Append(publications,
                    [repository_version |-> repository_version_pk,
                     complete |-> FALSE,
                     published_metadata |-> NoFiles])
            /\ run' = [pk |-> repository_version_pk,
                       simple_existed |-> simple_dir \in DOMAIN cwd_files]
            /\ pc' = "write_simple_api"
            /\ UNCHANGED history
    /\ UNCHANGED <<database, cwd_files, exc, locals>>

\* write_simple_api(), to its first return: os.mkdir(simple_dir), the root
\* index written and registered, and the return when there is no project.
WriteIndex(io_error) ==
    /\ pc = "write_simple_api"
    /\ IF simple_dir \in DOMAIN cwd_files
       THEN /\ exc' = "FileExistsError"
            /\ pc' = "exit"
            /\ UNCHANGED <<cwd_files, publications, index_names>>
       ELSE IF io_error
       THEN /\ exc' = "OSError"
            /\ pc' = "exit"
            /\ cwd_files' = cwd_files @@ (simple_dir :> Dir)
            /\ index_names' = IndexNames
            /\ UNCHANGED publications
       ELSE /\ cwd_files' = cwd_files @@ (simple_dir :> Dir)
                                @@ (index_path :> File(RenderIndex(IndexNames)))
            /\ publications' =
                    CreateFromFile(publications, index_path, RenderIndex(IndexNames))
            /\ index_names' = IndexNames
            /\ pc' = IF Len(IndexNames) = 0 THEN "exit" ELSE "queries"
            /\ UNCHANGED exc
    /\ UNCHANGED <<database, tmpdir, checksums, ind, current_name,
                   package_releases, pos, run, tasks, history>>

\* write_simple_api(), from the queries to the head of the for loop
StartLoop ==
    /\ pc = "queries"
    /\ checksums' = Checksums
    /\ ind' = 0
    /\ current_name' = index_names[0 + 1][1]
    /\ package_releases' = <<>>
    /\ pos' = 0
    /\ pc' = "loop"
    /\ UNCHANGED <<database, cwd_files, tmpdir, publications, exc, index_names,
                   run, tasks, history>>

\* one iteration of: for release in releases.iterator()
LoopIteration(io_error) ==
    /\ pc = "loop"
    /\ pos < Len(releases)
    /\ LET release == releases[pos + 1]
           flush == release.name # current_name
           page == IF flush
                   THEN WriteProjectPage(cwd_files, publications, io_error)
                   ELSE [exc |-> "None", files |-> cwd_files, pubs |-> publications]
           new_ind == IF flush THEN CursorAfterFlush ELSE ind
           acc == IF flush THEN AccumulatorAfterFlush ELSE package_releases
           resolved == ResolveChecksum(release)
       IN  /\ cwd_files' = page.files
           /\ publications' = page.pubs
           /\ IF page.exc # "None"
              THEN /\ exc' = page.exc
                   /\ pc' = "exit"
                   /\ UNCHANGED <<ind, current_name, package_releases, pos>>
              ELSE IF new_ind + 1 > Len(index_names)
              THEN /\ exc' = "IndexError"
                   /\ pc' = "exit"
                   /\ ind' = new_ind
                   /\ package_releases' = acc
                   /\ UNCHANGED <<current_name, pos>>
              ELSE IF resolved.raised
              THEN /\ exc' = "KeyError"
                   /\ pc' = "exit"
                   /\ ind' = new_ind
                   /\ current_name' = index_names[new_ind + 1][1]
                   /\ package_releases' = acc
                   /\ UNCHANGED pos
              ELSE /\ ind' = new_ind
                   /\ current_name' = index_names[new_ind + 1][1]
                   /\ package_releases' =
                            Append(acc, Triple(release, resolved.checksum))
                   /\ pos' = pos + 1
                   /\ UNCHANGED <<exc, pc>>
    /\ UNCHANGED <<database, tmpdir, index_names, checksums, run, tasks, history>>

\* a loop that ends without the final write_project_page()
FinalFlushSkipped(io_error) ==
    /\ pc = "loop"
    /\ pos = Len(releases)
    /\ pc' = "exit"
    /\ UNCHANGED <<database, cwd_files, tmpdir, publications, exc, locals, run,
                   tasks, history>>

\* write_project_page() after the loop: the final project's page
FinalFlush(io_error) ==
    /\ pc = "loop"
    /\ pos = Len(releases)
    /\ LET page == WriteProjectPage(cwd_files, publications, io_error)
       IN  /\ cwd_files' = page.files
           /\ publications' = page.pubs
           /\ exc' = page.exc
    /\ pc' = "exit"
    /\ UNCHANGED <<database, tmpdir, index_names, checksums, ind, current_name,
                   package_releases, pos, run, tasks, history>>

\* Publication.__exit__ of the publication built last: deleted when an
\* exception leaves the with body, completed otherwise.
PublicationExit(pubs, exception) ==
    IF exception # "None"
    THEN SubSeq(pubs, 1, Len(pubs) - 1)
    ELSE [pubs EXCEPT ![Len(pubs)].complete = TRUE]

\* The two with statements of publish() are left: the publication is
\* completed or deleted, the temporary directory is removed, and the task
\* ends (with the exception, if any).
ExitScopes ==
    /\ pc = "exit"
    /\ publications' = PublicationExit(publications, PropagatedException)
    /\ tmpdir' = FALSE
    /\ history' = Append(history,
            [pk |-> run.pk,
             simple_existed |-> run.simple_existed,
             exc |-> exc,
             publication |-> IF PropagatedException # "None" THEN 0 ELSE publication])
    /\ pc' = "idle"
    /\ exc' = "None"
    /\ index_names' = <<>>
    /\ checksums' = <<>>
    /\ ind' = 0
    /\ current_name' = <<>>
    /\ package_releases' = <<>>
    /\ pos' = 0
    /\ run' = NoRun
    /\ UNCHANGED <<database, cwd_files, tasks>>

\* Before its next task, the host may give the process an empty working
\* directory.
HostNewWorkingDirectory ==
    /\ pc = "idle"
    /\ tasks > 0
    /\ cwd_files # NoFiles
    /\ cwd_files' = NoFiles
    /\ UNCHANGED <<database, tmpdir, publications, pc, exc, locals, run, tasks,
                   history>>

\* the steps of a publish task
Next ==
    \/ \E pk \in RequestedPks : Publish(pk)
    \/ \E io_error \in BOOLEAN : WriteIndex(io_error)
    \/ StartLoop
    \/ \E io_error \in BOOLEAN : LoopIteration(io_error)
    \/ \E io_error \in BOOLEAN : FinalFlush(io_error)
    \/ ExitScopes

\* the steps of the tasks and of their host
NextRepeat ==
    \/ Next
    \/ HostNewWorkingDirectory

Spec == Init /\ [][Next]_vars

SpecRepeat == InitRepeat /\ [][NextRepeat]_vars

----------------------------------------------------------------------------
(* What the claims speak of, stated from the database alone. *)

\* the distinct project names of the repository version
Names == {r.name : r \in content}

\* the rows of project n, in the order the name-ordered query returns them
RowsOf(n) == SelectSeq(releases, LAMBDA r : r.name = n)

\* lowercase, every separator a "-", and no "-" after a "-"
RECURSIVE Squeeze(_)
Squeeze(s) ==
    IF Len(s) <= 1 THEN s
    ELSE IF s[1] = 45 /\ s[2] = 45 THEN Squeeze(Tail(s))
    ELSE <<s[1]>> \o Squeeze(Tail(s))

Normalized(name) ==
    Squeeze([i \in 1..Len(name) |->
                IF name[i] \in {45, 46, 95} THEN 45
                ELSE IF name[i] \in 65..90 THEN name[i] + 32 ELSE name[i]])

\* the path of the detail page of project n
PageOf(n) == <<SimpleSeg, Normalized(n), IndexHtmlSeg>>

\* the sha256 values of the remote artifacts linked to a row's content artifact
RemoteShas(r) == {ra[2] : ra \in {x \in remote_artifacts : x[1] = r.contentartifact}}

\* a row has a checksum: its own, or that of a remote artifact
Resolvable(r) == r.artifacts__sha256 # NoSha \/ RemoteShas(r) # {}

\* two distinct names of the repository version canonicalize alike
Collision == \E m, n \in Names : m # n /\ Normalized(m) = Normalized(n)

\* the href of a package file on a detail page, with checksum sha:
\* "../../<filename>#sha256=<sha>"
HrefOf(r, sha) ==
    <<46, 46, 47, 46, 46, 47>> \o r.filename
        \o <<35, 115, 104, 97, 50, 53, 54, 61>> \o sha

\* the detail pages of a publication
DetailPaths(pub) == DOMAIN pub.published_metadata \ {index_path}

\* the publications consumers can see
Visible(pubs) == SelectSeq(pubs, LAMBDA pub : pub.complete)

\* the publications of finished runs that succeeded
Completed == {k \in 1..Len(publications) : publications[k].complete}

----------------------------------------------------------------------------
(* C1 *)

\* C1: a publish run that completes has registered exactly N+1 metadata
\* files, N the number of distinct project names: simple/index.html and one
\* simple/<canonical_name>/index.html per name; with N = 0 the root index,
\* listing no project, is the only file.
C1_FileCount ==
    \A k \in Completed :
        LET files == DOMAIN publications[k].published_metadata
        IN  /\ files = {index_path} \cup {PageOf(n) : n \in Names}
            /\ Cardinality(files) = Cardinality(Names) + 1
            /\ Names = {} =>
                publications[k].published_metadata[index_path].anchors = <<>>

\* a completed publication of two projects and three package files
C1_Witness ==
    /\ Completed # {}
    /\ Cardinality(Names) = 2
    /\ Cardinality(content) = 3

----------------------------------------------------------------------------
(* C2 *)

\* C2: every detail page of a publication lists exactly the package files of
\* one project, in the order of the name-ordered query, and a completed
\* publication holds that page for every project.
C2_PagesGroupByProject ==
    \A k \in 1..Len(publications) :
        LET meta == publications[k].published_metadata
        IN  /\ \A p \in DetailPaths(publications[k]) :
                \E n \in Names :
                    /\ p = PageOf(n)
                    /\ [i \in 1..Len(meta[p].anchors) |-> meta[p].anchors[i].text]
                        = [i \in 1..Len(RowsOf(n)) |-> RowsOf(n)[i].filename]
            /\ publications[k].complete =>
                \A n \in Names :
                    /\ PageOf(n) \in DOMAIN meta
                    /\ [i \in 1..Len(meta[PageOf(n)].anchors) |->
                            meta[PageOf(n)].anchors[i].text]
                        = [i \in 1..Len(RowsOf(n)) |-> RowsOf(n)[i].filename]

\* a completed publication with a project of two package files before
\* another project
C2_Witness ==
    /\ Completed # {}
    /\ Cardinality(Names) = 2
    /\ Len(RowsOf(releases[1].name)) = 2

----------------------------------------------------------------------------
(* C3 *)

\* the row of a package file name
RowNamed(filename) == CHOOSE r \in content : r.filename = filename

\* C3: every package file on a detail page carries its artifact's own sha256
\* when it has one, and otherwise the sha256 of a remote artifact of its
\* content artifact; the loop never goes past a row that has neither: it
\* raises KeyError there, the run fails, and no page lists the file.
C3_Checksums ==
    /\ \A k \in 1..Len(publications) :
        \A p \in DetailPaths(publications[k]) :
            LET anchors == publications[k].published_metadata[p].anchors
            IN  \A i \in 1..Len(anchors) :
                    LET r == RowNamed(anchors[i].text)
                    IN  /\ Resolvable(r)
                        /\ IF r.artifacts__sha256 # NoSha
                           THEN anchors[i].href = HrefOf(r, r.artifacts__sha256)
                           ELSE \E sha \in RemoteShas(r) :
                                    anchors[i].href = HrefOf(r, sha)
    /\ \A i \in 1..Len(package_releases) :
            LET r == RowNamed(package_releases[i][1])
            IN  /\ Resolvable(r)
                /\ package_releases[i][3] =
                        IF r.artifacts__sha256 # NoSha
                        THEN r.artifacts__sha256
                        ELSE CHOOSE sha \in RemoteShas(r) : TRUE
    /\ pc \in {"loop", "exit"} => \A i \in 1..pos : Resolvable(releases[i])
    /\ exc = "KeyError" => pc = "exit" /\ ~Resolvable(releases[pos + 1])
    /\ \A i \in 1..Len(history) :
            (history[i].pk \in RepositoryVersions
                /\ \E r \in content : ~Resolvable(r))
            => /\ history[i].exc \in {"KeyError", "FileExistsError", "OSError"}
               /\ history[i].publication = 0
               /\ history[i].exc = "FileExistsError" =>
                    Collision \/ history[i].simple_existed

\* a page lists a package file by the sha256 of its remote artifact, next to
\* one listed by its own, although the latter has a remote artifact too
C3_Witness ==
    \E k \in Completed :
        \E p \in DetailPaths(publications[k]) :
            LET anchors == publications[k].published_metadata[p].anchors
            IN  /\ Len(anchors) = 2
                /\ RowNamed(anchors[1].text).artifacts__sha256 = NoSha
                /\ RowNamed(anchors[2].text).artifacts__sha256 # NoSha
                /\ RemoteShas(RowNamed(anchors[2].text)) # {}

\* the run has failed with KeyError at a row with no checksum, after a page
\* was registered
C3_WitnessMissing ==
    /\ exc = "KeyError"
    /\ pos > 0
    /\ DetailPaths(publications[publication]) # {}

----------------------------------------------------------------------------
(* C4 *)

\* the record of the run that finished last
LastRun == history[Len(history)]

\* C4 as stated: every run of publish() on a repository version that exists
\* produces a publication.  Set aside are the runs hit by an I/O error, those
\* begun with simple/ in the working directory, and the repository versions
\* with two names that canonicalize alike.
C4_AlwaysPublishes ==
    \A i \in 1..Len(history) :
        (/\ history[i].pk \in RepositoryVersions
         /\ history[i].exc # "OSError"
         /\ ~history[i].simple_existed
         /\ ~Collision)
        => history[i].publication # 0

\* what decides whether a run on the repository version succeeds
Publishable == (\A r \in content : Resolvable(r)) /\ ~Collision

C4_Outcomes ==
    \A i \in 1..Len(history) :
        LET h == history[i]
        IN  /\ h.pk \notin RepositoryVersions =>
                h.exc = "DoesNotExist" /\ h.publication = 0
            /\ h.pk \in RepositoryVersions =>
                /\ h.exc # "DoesNotExist"
                /\ h.publication # 0 <=> h.exc = "None"
                /\ h.publication # 0 =>
                    /\ h.publication \in Completed
                    /\ publications[h.publication].repository_version = h.pk
                /\ h.exc # "OSError" =>
                    (h.exc = "None" <=> Publishable /\ ~h.simple_existed)

\* a run that ends with DoesNotExist leaves the files and the publications
\* as they were
C4_LookupFailureStep ==
    (Len(history') > Len(history) /\ history'[Len(history')].exc = "DoesNotExist")
    => UNCHANGED <<cwd_files, publications>>

\* C4, amended: publish() fails with DoesNotExist when the repository version
\* does not exist, and then creates no publication and writes no file; on a
\* repository version that exists it produces a publication exactly when no
\* exception is raised while the index is written, which (I/O errors aside)
\* is when every row has a checksum, no two names canonicalize alike and the
\* working directory holds no simple/ yet.
C4_PublishesUnlessRaised == []C4_Outcomes /\ [][C4_LookupFailureStep]_vars

\* a run has failed on the unknown key after a run that published
C4_Witness ==
    /\ Len(history) = 2
    /\ history[1].publication # 0
    /\ history[2].exc = "DoesNotExist"

----------------------------------------------------------------------------
(* C5 *)

\* the metadata of a whole publication of the repository version
WholeTree == {index_path} \cup {PageOf(n) : n \in Names}

\* only the publication being built is incomplete, and a complete one holds
\* the whole tree
C5_NoPartialPublication ==
    /\ \A k \in 1..Len(publications) :
        /\ publications[k].complete =>
                DOMAIN publications[k].published_metadata = WholeTree
        /\ ~publications[k].complete => pc # "idle" /\ k = Len(publications)
    /\ pc = "idle" => Visible(publications) = publications

\* the visible publications change only when a run ends without an exception,
\* and then by the publication it built
C5_VisibleStep ==
    \/ Visible(publications') = Visible(publications)
    \/ /\ pc = "exit"
       /\ exc = "None"
       /\ Visible(publications') =
            Append(Visible(publications),
                   [publications[publication] EXCEPT !.complete = TRUE])

\* C5: a run that fails at any step leaves the visible publications as they
\* were, so the one served before is still served, and the metadata it had
\* registered is in no visible publication.
C5_FailedRunInvisible == []C5_NoPartialPublication /\ [][C5_VisibleStep]_vars

\* a run failed after it wrote and registered the root index, and the
\* publication of the run before it is the only one
C5_Witness ==
    /\ pc = "idle"
    /\ Len(history) = 2
    /\ history[1].publication = 1
    /\ history[2].exc = "OSError"
    /\ index_path \in DOMAIN cwd_files
    /\ Len(publications) = 1
    /\ publications[1].complete

----------------------------------------------------------------------------
(* C6 *)

\* C6 as stated (runs hit by an I/O error set aside): when a run on a
\* repository version has published, the next run on it publishes too, and
\* the two publications hold the same files.
C6_RepublishIdentical ==
    \A i \in 1..(Len(history) - 1) :
        (/\ history[i].pk = history[i + 1].pk
         /\ history[i].exc = "None"
         /\ history[i + 1].exc # "OSError")
        => /\ history[i + 1].exc = "None"
           /\ publications[history[i].publication].published_metadata
                = publications[history[i + 1].publication].published_metadata

\* two publications of the repository version hold the same files
C6_SameFilesWhenBothPublish ==
    \A j, k \in Completed :
        publications[j].published_metadata = publications[k].published_metadata

----------------------------------------------------------------------------
(* C7 *)

\* C7 as stated (runs hit by an I/O error set aside): when two names of the
\* repository version canonicalize alike and every row has a checksum, a run
\* in an empty working directory does not fail, and the page of the shared
\* directory is that of the later project.
C7_CollisionTolerated ==
    \A i \in 1..Len(history) :
        (/\ history[i].pk \in RepositoryVersions
         /\ Collision
         /\ \A r \in content : Resolvable(r)
         /\ ~history[i].simple_existed
         /\ history[i].exc # "OSError")
        => /\ history[i].exc = "None"
           /\ \A m, n \in Names :
                (StrLess(m, n) /\ Normalized(m) = Normalized(n)) =>
                    LET page == publications[history[i].publication]
                                    .published_metadata[PageOf(n)]
                    IN  [j \in 1..Len(page.anchors) |-> page.anchors[j].text]
                        = [j \in 1..Len(RowsOf(n)) |-> RowsOf(n)[j].filename]

----------------------------------------------------------------------------
(* C8 *)

\* C8 as stated: when a run of publish() has ended, by return or by
\* exception, none of the directories and files it generated remains.
C8_NothingRemains ==
    (pc = "idle" /\ history # <<>>) =>
        /\ ~tmpdir
        /\ DOMAIN cwd_files = {}

----------------------------------------------------------------------------
(* C9 *)

\* the root index of a publication, once registered
RootAnchors(pub) == pub.published_metadata[index_path].anchors

\* C9: the root index lists every project name once, in alphabetical order;
\* each href is the canonical form of the name and "/", and the text is the
\* name; in a completed publication every href is the directory of a
\* detail page.
C9_RootIndex ==
    \A k \in 1..Len(publications) :
        index_path \in DOMAIN publications[k].published_metadata =>
            LET a == RootAnchors(publications[k])
            IN  /\ {a[i].text : i \in 1..Len(a)} = Names
                /\ \A i, j \in 1..Len(a) : i < j => StrLess(a[i].text, a[j].text)
                /\ \A i \in 1..Len(a) : a[i].href = Normalized(a[i].text) \o <<47>>
                /\ publications[k].complete =>
                    \A i \in 1..Len(a) :
                        <<SimpleSeg, SubSeq(a[i].href, 1, Len(a[i].href) - 1),
                          IndexHtmlSeg>>
                            \in DOMAIN publications[k].published_metadata

\* a completed publication of three projects, the first of them "A_.b"
C9_Witness ==
    \E k \in Completed :
        /\ Len(RootAnchors(publications[k])) = 3
        /\ RootAnchors(publications[k])[1].text = <<65, 95, 46, 98>>
        /\ RootAnchors(publications[k])[1].href = <<97, 45, 98, 47>>

----------------------------------------------------------------------------
(* C10 *)

\* the file names of the accumulator
Accumulated == [i \in 1..Len(package_releases) |-> package_releases[i][1]]

\* in the loop, and after its final flush
C10_Cursor ==
    (pc = "loop" \/ (pc = "exit" /\ exc = "None" /\ index_names # <<>>)) =>
        /\ ind \in 0..(Len(index_names) - 1)
        /\ current_name = index_names[ind + 1][1]
        /\ \A i \in 1..Len(package_releases) :
                RowNamed(package_releases[i][1]).name = current_name
        /\ pos > 0 =>
            /\ current_name = releases[pos].name
            /\ Accumulated = [i \in 1..Len(package_releases) |->
                    releases[pos - Len(package_releases) + i].filename]
            /\ package_releases # <<>>
        /\ pc = "exit" =>
            /\ ind = Len(index_names) - 1
            /\ MetadataRelativePath(index_names[Len(index_names)][2])
                \in DOMAIN publications[publication].published_metadata

\* a step of the loop that registers a page: a flush
C10_FlushStep ==
    (pc = "loop" /\ publications' # publications) =>
        /\ package_releases # <<>>
        /\ ind + 1 <= Len(index_names)
        /\ LET path == MetadataRelativePath(index_names[ind + 1][2])
               before == publications[publication].published_metadata
               after == publications'[publication].published_metadata
           IN  /\ DOMAIN after = DOMAIN before \cup {path}
               /\ path \notin DOMAIN before
               /\ [i \in 1..Len(after[path].anchors) |-> after[path].anchors[i].text]
                    = Accumulated
               /\ \A i \in 1..Len(package_releases) :
                    RowNamed(package_releases[i][1]).name = index_names[ind + 1][1]

\* C10: throughout the pass the cursor is inside the project list, the
\* current name is the name at the cursor, the accumulator holds rows of that
\* name only, every flush (the final one too) has a non-empty accumulator and
\* writes the page of the canonical name at the cursor, and so the last
\* project's page is written.
C10_GroupingLoop == []C10_Cursor /\ [][C10_FlushStep]_vars

\* the cursor has advanced twice and the final flush is next
C10_Witness ==
    /\ pc = "loop"
    /\ ind = 2
    /\ pos = Len(releases)

====
